---- MODULE Spec2Model ----
(***************************************************************************)
(* Model of server.js: an Express server with three POST routes            *)
(* (/generate-document, /chat, /upload-training-files), a multer upload    *)
(* pipeline writing temp files under uploads/, and an error middleware.    *)
(*                                                                         *)
(* Node runs each handler atomically between two awaits, so there is one   *)
(* action per await completion (or pipeline callback); concurrent requests *)
(* interleave at these points and share only the uploads directory.        *)
(***************************************************************************)
EXTENDS Integers, Sequences, FiniteSets, TLC

(* ---- bounds ---- *)
NumReqs == 2      \* concurrent requests
MaxParts == 2     \* file parts received, over all requests
MaxClock == 0     \* Date.now() ranges over 0..MaxClock
MaxRnd == 1       \* Math.round(Math.random() * 1E9) ranges over 0..MaxRnd

Reqs == 1..NumReqs

(* ---- JavaScript values ---- *)
Undefined == "undefined"
NoPath == <<>>   \* file.path before the storage engine has set it
NoFile == [originalname |-> Undefined, mimetype |-> Undefined, size |-> 0]
NoPart == [file |-> NoFile, path |-> NoPath]   \* multer is between parts

\* !v for the values a JSON body field can take here
Truthy(v) == v \notin {Undefined, ""}

\* res.json: JSON.stringify drops the keys whose value is undefined; of the objects
\* the server sends, only the details key can hold undefined
Json(obj) ==
  [k \in {j \in DOMAIN obj : ~(j = "details" /\ obj[j] = Undefined)} |-> obj[k]]

(* ---- process.env.NODE_ENV ---- *)
NodeEnvs == {"production", "development", Undefined}

\* process.env.NODE_ENV === 'development' ? error.message : undefined
DevDetails(env, message) == IF env = "development" THEN message ELSE Undefined

(* ---- request inputs ---- *)
Routes == {"/generate-document", "/chat", "/upload-training-files"}
FieldValues == {Undefined, "", "lease"}
NoBuffer == <<>> \* no bytes read
NoBody == <<>>   \* req.body before, or without, a successful parse

GenerateBodies == [documentType : FieldValues, details : FieldValues]
ChatBodies == [message : FieldValues]

\* what the completion collaborator may return, and the message it may fail with
Texts == {"", "deed text"}
CompletionError == "quota exceeded"

(* ---- multer configuration ---- *)
PdfMime == "application/pdf"
DocMime == "application/msword"
DocxMime == "application/vnd.openxmlformats-officedocument.wordprocessingml.document"
TxtMime == "text/plain"

FileSizeLimit == 5 * 1024 * 1024

\* file parts a client may attach
Parts ==
  { [originalname |-> "deed.pdf",  mimetype |-> PdfMime,  size |-> 10240],
    [originalname |-> "will.doc",  mimetype |-> DocMime,  size |-> 10240],
    [originalname |-> "plea.docx", mimetype |-> DocxMime, size |-> 10240],
    [originalname |-> "note.txt",  mimetype |-> TxtMime,  size |-> 10240],
    [originalname |-> "scan.pdf",  mimetype |-> PdfMime,  size |-> 5242881] }

\* path.extname on the names above
extname(name) ==
  CASE name = "deed.pdf"  -> ".pdf"
    [] name = "scan.pdf"  -> ".pdf"
    [] name = "will.doc"  -> ".doc"
    [] name = "plea.docx" -> ".docx"
    [] name = "note.txt"  -> ".txt"

FilterError == "Only PDF and Word documents are allowed!"
LimitError == "File too large"
MkdirError == "EACCES: mkdir uploads"
JsonError == "Unexpected token in JSON"
HandlerError == "Invalid string length"

VARIABLES
  nodeEnv,         \* process.env.NODE_ENV
  disk,            \* uploads/: path -> the upload <<request, part>> it holds
  pc,              \* where each request is in its pipeline
  route,           \* the route of each request
  body,            \* req.body
  files,           \* req.files: the parts multer has stored
  cur,             \* the file part multer is working on (or aborted on)
  idx,             \* position of the for..of loop over req.files
  processedFiles,  \* the handler's processedFiles array
  dataBuffer,      \* what fs.readFile returned
  err,             \* the error caught by a handler's outer catch or passed to next()
  responses,       \* the responses sent for each request, in order
  calls,           \* collaborator calls started for each request
  completion,      \* what generateContent returned
  handlerRan,      \* whether the route handler was entered
  parts,           \* file parts received so far, over all requests
  fileErrors       \* the call that raised each fileError, as console.error logs it

vars == <<nodeEnv, disk, pc, route, body, files, cur, idx, processedFiles,
          dataBuffer, err, responses, calls, completion, handlerRan, parts, fileErrors>>

NoCalls == [generateContent |-> 0, readFile |-> 0, pdf |-> 0, unlink |-> 0]

Init ==
  /\ nodeEnv \in NodeEnvs
  /\ disk = <<>>
  /\ pc = [r \in Reqs |-> "idle"]
  /\ route = [r \in Reqs |-> Undefined]
  /\ body = [r \in Reqs |-> NoBody]
  /\ files = [r \in Reqs |-> <<>>]
  /\ cur = [r \in Reqs |-> NoPart]
  /\ idx = [r \in Reqs |-> 0]
  /\ processedFiles = [r \in Reqs |-> <<>>]
  /\ dataBuffer = [r \in Reqs |-> NoBuffer]
  /\ err = [r \in Reqs |-> Undefined]
  /\ responses = [r \in Reqs |-> <<>>]
  /\ calls = [r \in Reqs |-> NoCalls]
  /\ completion = [r \in Reqs |-> Undefined]
  /\ handlerRan = [r \in Reqs |-> FALSE]
  /\ parts = 0
  /\ fileErrors = [r \in Reqs |-> <<>>]

(* ---- helpers ---- *)
\* res.status(status).json(obj)
Send(r, status, obj) ==
  responses' = [responses EXCEPT ![r] =
    Append(@, [status |-> status, body |-> Json(obj)])]

\* the request is over: its req object and the handler's locals are gone
Release(r) ==
  /\ pc' = [pc EXCEPT ![r] = "done"]
  /\ files' = [files EXCEPT ![r] = <<>>]
  /\ cur' = [cur EXCEPT ![r] = NoPart]
  /\ idx' = [idx EXCEPT ![r] = 0]
  /\ processedFiles' = [processedFiles EXCEPT ![r] = <<>>]
  /\ dataBuffer' = [dataBuffer EXCEPT ![r] = NoBuffer]

Call(r, name) == calls' = [calls EXCEPT ![r][name] = @ + 1]

\* the disk after writing bytes `id` at path p (createWriteStream truncates)
WriteFile(d, p, id) == [q \in DOMAIN d \cup {p} |-> IF q = p THEN id ELSE d[q]]

\* the disk after unlinking the paths ps
RemoveFiles(d, ps) == [q \in DOMAIN d \ ps |-> d[q]]

(* ---- a request arrives; express.json() parses its body ---- *)
Receive(r) ==
  /\ pc[r] = "idle"
  /\ \E rt \in Routes :
       /\ route' = [route EXCEPT ![r] = rt]
       /\ \/ /\ rt = "/generate-document"
             /\ \E b \in GenerateBodies : body' = [body EXCEPT ![r] = b]
             /\ pc' = [pc EXCEPT ![r] = "handler"]
             /\ UNCHANGED err
          \/ /\ rt = "/chat"
             /\ \E b \in ChatBodies : body' = [body EXCEPT ![r] = b]
             /\ pc' = [pc EXCEPT ![r] = "handler"]
             /\ UNCHANGED err
          \/ /\ rt \in {"/generate-document", "/chat"}
             /\ err' = [err EXCEPT ![r] = JsonError]
             /\ UNCHANGED body
             /\ pc' = [pc EXCEPT ![r] = "error"]
          \/ /\ rt = "/upload-training-files"
             /\ pc' = [pc EXCEPT ![r] = "multer"]
             /\ UNCHANGED <<body, err>>
  /\ UNCHANGED <<nodeEnv, disk, files, cur, idx, processedFiles, dataBuffer,
                 responses, calls, completion, handlerRan, parts, fileErrors>>

(* ---- POST /generate-document ---- *)
\* mutant: the validation joins its two tests with && instead of ||
MissingGenerateFields_And(b) == ~Truthy(b.documentType) /\ ~Truthy(b.details)

MissingGenerateFields(b) == ~Truthy(b.documentType) \/ ~Truthy(b.details)

GenerateDocument(r) ==
  /\ pc[r] = "handler"
  /\ route[r] = "/generate-document"
  /\ handlerRan' = [handlerRan EXCEPT ![r] = TRUE]
  /\ IF MissingGenerateFields(body[r])
       THEN /\ Send(r, 400, [error |-> "Document type and details are required"])
            /\ pc' = [pc EXCEPT ![r] = "done"]
            /\ UNCHANGED calls
       ELSE /\ Call(r, "generateContent")
            /\ pc' = [pc EXCEPT ![r] = "generateContent"]
            /\ UNCHANGED responses
  /\ UNCHANGED <<nodeEnv, disk, route, body, files, cur, idx, processedFiles,
                 dataBuffer, err, completion, parts, fileErrors>>

(* ---- POST /chat ---- *)
MissingMessage(b) == ~Truthy(b.message)

Chat(r) ==
  /\ pc[r] = "handler"
  /\ route[r] = "/chat"
  /\ handlerRan' = [handlerRan EXCEPT ![r] = TRUE]
  /\ IF MissingMessage(body[r])
       THEN /\ Send(r, 400, [error |-> "Message is required"])
            /\ pc' = [pc EXCEPT ![r] = "done"]
            /\ UNCHANGED calls
       ELSE /\ Call(r, "generateContent")
            /\ pc' = [pc EXCEPT ![r] = "generateContent"]
            /\ UNCHANGED responses
  /\ UNCHANGED <<nodeEnv, disk, route, body, files, cur, idx, processedFiles,
                 dataBuffer, err, completion, parts, fileErrors>>

(* ---- await model.generateContent(prompt) completes ---- *)
\* mutant: an empty completion is replaced by a placeholder (text || '...')
GenerateSuccess_Fallback(text) ==
  [document |-> IF text = "" THEN "No content generated" ELSE text]

GenerateSuccess(text) == [document |-> text]
ChatSuccess(text) == [response |-> text, status |-> "success"]

GenerateFailure(env, message) ==
  [error |-> "Failed to generate document", details |-> DevDetails(env, message)]

ChatFailure(env, message) ==
  [error |-> "Failed to process your question. Please try again.",
   details |-> DevDetails(env, message)]

GenerateContentReturns(r) ==
  /\ pc[r] = "generateContent"
  /\ \E text \in Texts :
       /\ completion' = [completion EXCEPT ![r] = text]
       /\ IF route[r] = "/generate-document"
            THEN Send(r, 200, GenerateSuccess(text))
            ELSE Send(r, 200, ChatSuccess(text))
  /\ pc' = [pc EXCEPT ![r] = "done"]
  /\ UNCHANGED <<nodeEnv, disk, route, body, files, cur, idx, processedFiles,
                 dataBuffer, err, calls, handlerRan, parts, fileErrors>>

GenerateContentFails(r) ==
  /\ pc[r] = "generateContent"
  /\ err' = [err EXCEPT ![r] = CompletionError]
  /\ IF route[r] = "/generate-document"
       THEN Send(r, 500, GenerateFailure(nodeEnv, CompletionError))
       ELSE Send(r, 500, ChatFailure(nodeEnv, CompletionError))
  /\ pc' = [pc EXCEPT ![r] = "done"]
  /\ UNCHANGED <<nodeEnv, disk, route, body, files, cur, idx, processedFiles,
                 dataBuffer, calls, completion, handlerRan, parts, fileErrors>>

(* ---- multer: upload.array('files') ---- *)
\* mutant: the filter accepts every type
fileFilter_AnyType(file) == file.mimetype # ""

\* fileFilter: cb(null, true) or cb(new Error(...))
fileFilter(file) ==
  \/ file.mimetype = PdfMime
  \/ file.mimetype = DocMime
  \/ file.mimetype = DocxMime

\* storage.filename: fieldname + '-' + Date.now() + '-' + random + extname(...);
\* the '-' separators make the concatenation injective: a tuple stands for the string
filename(fieldname, now, rnd, originalname) ==
  <<fieldname, now, rnd, extname(originalname)>>

\* the id of the upload multer is working on for request r
CurId(r) == <<r, Len(files[r]) + 1>>

\* the paths multer has stored for request r (finished parts and the one being written)
UploadedPaths(r) ==
  {files[r][i].path : i \in 1..Len(files[r])}
    \cup (IF cur[r].path # NoPath THEN {cur[r].path} ELSE {})

\* the next file part of request r arrives
NextPart(r) ==
  /\ parts < MaxParts
  /\ parts' = parts + 1

\* multer aborts the request: it removes what it stored, then calls next(error)
Abort(r, message) ==
  /\ disk' = RemoveFiles(disk, UploadedPaths(r))
  /\ err' = [err EXCEPT ![r] = message]
  /\ pc' = [pc EXCEPT ![r] = "error"]

\* the form has no further part: req.files is complete, the route handler is next
MulterDone(r) ==
  /\ pc[r] = "multer"
  /\ pc' = [pc EXCEPT ![r] = "handler"]
  /\ cur' = [cur EXCEPT ![r] = NoPart]
  /\ UNCHANGED <<nodeEnv, disk, route, body, files, idx, processedFiles,
                 dataBuffer, err, responses, calls, completion, handlerRan, parts,
                 fileErrors>>

\* the next file part fails fileFilter
MulterReject(r) ==
  /\ pc[r] = "multer"
  /\ NextPart(r)
  /\ \E f \in Parts :
       /\ ~fileFilter(f)
       /\ cur' = [cur EXCEPT ![r] = [file |-> f, path |-> NoPath]]
       /\ Abort(r, FilterError)
  /\ UNCHANGED <<nodeEnv, route, body, files, idx, processedFiles,
                 dataBuffer, responses, calls, completion, handlerRan, fileErrors>>

\* storage.destination: fs.mkdir fails, cb(error)
MulterMkdirFails(r) ==
  /\ pc[r] = "multer"
  /\ NextPart(r)
  /\ \E f \in Parts :
       /\ fileFilter(f)
       /\ cur' = [cur EXCEPT ![r] = [file |-> f, path |-> NoPath]]
       /\ Abort(r, MkdirError)
  /\ UNCHANGED <<nodeEnv, route, body, files, idx, processedFiles,
                 dataBuffer, responses, calls, completion, handlerRan, fileErrors>>

\* the next file part passes fileFilter: destination and filename are called and
\* the part starts streaming into its temp file. Date.now() is wall-clock time, an
\* input like Math.random(): nothing here assumes that it increases.
MulterStore(r) ==
  /\ pc[r] = "multer"
  /\ NextPart(r)
  /\ \E f \in Parts, now \in 0..MaxClock, rnd \in 0..MaxRnd :
       LET path == filename("files", now, rnd, f.originalname) IN
       /\ fileFilter(f)
       /\ cur' = [cur EXCEPT ![r] = [file |-> f, path |-> path]]
       /\ disk' = WriteFile(disk, path, CurId(r))
  /\ pc' = [pc EXCEPT ![r] = "stream"]
  /\ UNCHANGED <<nodeEnv, route, body, files, idx, processedFiles,
                 dataBuffer, err, responses, calls, completion, handlerRan, fileErrors>>

\* limits.fileSize: the stream passes the limit while being written
MulterLimit(r) ==
  /\ pc[r] = "stream"
  /\ cur[r].file.size > FileSizeLimit
  /\ Abort(r, LimitError)
  /\ UNCHANGED <<nodeEnv, route, body, files, cur, idx, processedFiles,
                 dataBuffer, responses, calls, completion, handlerRan, parts,
                 fileErrors>>

\* the stream ends within the limit: the file joins req.files
MulterStored(r) ==
  /\ pc[r] = "stream"
  /\ cur[r].file.size <= FileSizeLimit
  /\ files' = [files EXCEPT ![r] =
       Append(@, [originalname |-> cur[r].file.originalname,
                  mimetype |-> cur[r].file.mimetype,
                  size |-> cur[r].file.size,
                  path |-> cur[r].path])]
  /\ cur' = [cur EXCEPT ![r] = NoPart]
  /\ pc' = [pc EXCEPT ![r] = "multer"]
  /\ UNCHANGED <<nodeEnv, disk, route, body, idx, processedFiles,
                 dataBuffer, err, responses, calls, completion, handlerRan, parts,
                 fileErrors>>

(* ---- POST /upload-training-files ---- *)
\* the entry pushed after a file was processed
FileEntry(file, content) ==
  [filename |-> file.originalname, content |-> content, size |-> file.size]

\* the entry pushed by catch (fileError)
ErrorEntry(file) == [filename |-> file.originalname, error |-> "Failed to process file"]

\* pdf(dataBuffer).text
PdfText(buffer) == <<"text of", buffer>>

\* The for..of loop reaches position i with processedFiles pf: the handler runs up
\* to its next await (fs.readFile for a PDF, fs.unlink for another type) or to the
\* response after the loop.
LoopPc(fs, i) ==
  IF i > Len(fs) THEN "respond"
  ELSE IF fs[i].mimetype = PdfMime THEN "readFile" ELSE "unlink"

LoopProcessed(fs, i, pf) ==
  IF i <= Len(fs) /\ fs[i].mimetype # PdfMime
    THEN Append(pf, FileEntry(fs[i], ""))
    ELSE pf

LoopCalls(fs, i, c) ==
  IF i > Len(fs) THEN c ELSE [c EXCEPT ![LoopPc(fs, i)] = @ + 1]

EnterLoop(r, i, pf) ==
  /\ idx' = [idx EXCEPT ![r] = i]
  /\ pc' = [pc EXCEPT ![r] = LoopPc(files[r], i)]
  /\ processedFiles' = [processedFiles EXCEPT ![r] = LoopProcessed(files[r], i, pf)]
  /\ calls' = [calls EXCEPT ![r] = LoopCalls(files[r], i, @)]

\* catch (fileError): log the error that `call` raised, push the error entry and go
\* on with the next file
CatchFileError(r, call) ==
  /\ fileErrors' = [fileErrors EXCEPT ![r] = Append(@, call)]
  /\ EnterLoop(r, idx[r] + 1, Append(processedFiles[r], ErrorEntry(files[r][idx[r]])))

\* mutant: only !req.files is tested, and multer always sets an array
NoFilesUploaded_MissingOnly(fs) == FALSE

NoFilesUploaded(fs) == Len(fs) = 0

\* mutant: the 400 branch lacks its return, so the handler goes on to the loop
UploadTrainingFiles_NoReturn(r) ==
  /\ pc[r] = "handler"
  /\ route[r] = "/upload-training-files"
  /\ handlerRan' = [handlerRan EXCEPT ![r] = TRUE]
  /\ IF NoFilesUploaded(files[r])
       THEN Send(r, 400, [error |-> "No files uploaded"])
       ELSE UNCHANGED responses
  /\ EnterLoop(r, 1, <<>>)
  /\ UNCHANGED <<nodeEnv, disk, route, body, files, cur, dataBuffer, err,
                 completion, parts, fileErrors>>

UploadTrainingFiles(r) ==
  /\ pc[r] = "handler"
  /\ route[r] = "/upload-training-files"
  /\ handlerRan' = [handlerRan EXCEPT ![r] = TRUE]
  /\ IF NoFilesUploaded(files[r])
       THEN /\ Send(r, 400, [error |-> "No files uploaded"])
            /\ pc' = [pc EXCEPT ![r] = "done"]
            /\ UNCHANGED <<idx, processedFiles, calls>>
       ELSE /\ EnterLoop(r, 1, <<>>)
            /\ UNCHANGED responses
  /\ UNCHANGED <<nodeEnv, disk, route, body, files, cur, dataBuffer, err,
                 completion, parts, fileErrors>>

\* await fs.readFile(file.path) returns the bytes; pdf(dataBuffer) is called
ReadFileReturns(r) ==
  /\ pc[r] = "readFile"
  /\ files[r][idx[r]].path \in DOMAIN disk
  /\ dataBuffer' = [dataBuffer EXCEPT ![r] = disk[files[r][idx[r]].path]]
  /\ Call(r, "pdf")
  /\ pc' = [pc EXCEPT ![r] = "pdf"]
  /\ UNCHANGED <<nodeEnv, disk, route, body, files, cur, idx, processedFiles,
                 err, responses, completion, handlerRan, parts, fileErrors>>

\* await fs.readFile(file.path) rejects (the path is gone, or any I/O error)
ReadFileFails(r) ==
  /\ pc[r] = "readFile"
  /\ CatchFileError(r, "readFile")
  /\ UNCHANGED <<nodeEnv, disk, route, body, files, cur, dataBuffer, err,
                 responses, completion, handlerRan, parts>>

\* await pdf(dataBuffer) returns: the entry is pushed and fs.unlink is called
PdfReturns(r) ==
  /\ pc[r] = "pdf"
  /\ processedFiles' = [processedFiles EXCEPT ![r] =
       Append(@, FileEntry(files[r][idx[r]], PdfText(dataBuffer[r])))]
  /\ dataBuffer' = [dataBuffer EXCEPT ![r] = NoBuffer]
  /\ Call(r, "unlink")
  /\ pc' = [pc EXCEPT ![r] = "unlink"]
  /\ UNCHANGED <<nodeEnv, disk, route, body, files, cur, idx, err, responses,
                 completion, handlerRan, parts, fileErrors>>

\* await pdf(dataBuffer) rejects
PdfFails(r) ==
  /\ pc[r] = "pdf"
  /\ dataBuffer' = [dataBuffer EXCEPT ![r] = NoBuffer]
  /\ CatchFileError(r, "pdf")
  /\ UNCHANGED <<nodeEnv, disk, route, body, files, cur, err, responses,
                 completion, handlerRan, parts>>

\* await fs.unlink(file.path) returns
UnlinkReturns(r) ==
  /\ pc[r] = "unlink"
  /\ files[r][idx[r]].path \in DOMAIN disk
  /\ disk' = RemoveFiles(disk, {files[r][idx[r]].path})
  /\ EnterLoop(r, idx[r] + 1, processedFiles[r])
  /\ UNCHANGED <<nodeEnv, route, body, files, cur, dataBuffer, err, responses,
                 completion, handlerRan, parts, fileErrors>>

\* await fs.unlink(file.path) rejects (the path is gone, or any I/O error)
UnlinkFails(r) ==
  /\ pc[r] = "unlink"
  /\ CatchFileError(r, "unlink")
  /\ UNCHANGED <<nodeEnv, disk, route, body, files, cur, dataBuffer, err,
                 responses, completion, handlerRan, parts>>

UploadSuccess(pf) ==
  [success |-> TRUE, message |-> "Files processed successfully", processedFiles |-> pf]

\* the outer catch of the upload handler
UploadFailure(env, message) == [error |-> "Failed to process files",
details |-> message]

\* after the loop: res.json({success: true, ...})
UploadRespond(r) ==
  /\ pc[r] = "respond"
  /\ Send(r, 200, UploadSuccess(processedFiles[r]))
  /\ Release(r)
  /\ UNCHANGED <<nodeEnv, disk, route, body, err, calls, completion, handlerRan,
                 parts, fileErrors>>

\* an exception outside the per-file try reaches the outer catch: res.json throws
\* while it serialises processedFiles (RangeError: Invalid string length)
UploadThrows(r) ==
  /\ pc[r] = "respond"
  /\ err' = [err EXCEPT ![r] = HandlerError]
  /\ Send(r, 500, UploadFailure(nodeEnv, HandlerError))
  /\ Release(r)
  /\ UNCHANGED <<nodeEnv, disk, route, body, calls, completion, handlerRan, parts,
                 fileErrors>>

(* ---- error handling middleware ---- *)
\* mutant: the middleware puts the error's own message in the error field
MiddlewareFailure_Leaks(env, message) ==
  [error |-> message, details |-> DevDetails(env, message)]

MiddlewareFailure(env, message) ==
  [error |-> "Internal server error", details |-> DevDetails(env, message)]

ErrorMiddleware(r) ==
  /\ pc[r] = "error"
  /\ Send(r, 500, MiddlewareFailure(nodeEnv, err[r]))
  /\ Release(r)
  /\ UNCHANGED <<nodeEnv, disk, route, body, err, calls, completion, handlerRan,
                 parts, fileErrors>>

(* ---- specification ---- *)
Next ==
  \/ \E r \in Reqs : Receive(r)
  \/ \E r \in Reqs : GenerateDocument(r)
  \/ \E r \in Reqs : Chat(r)
  \/ \E r \in Reqs : GenerateContentReturns(r)
  \/ \E r \in Reqs : GenerateContentFails(r)
  \/ \E r \in Reqs : MulterDone(r)
  \/ \E r \in Reqs : MulterReject(r)
  \/ \E r \in Reqs : MulterMkdirFails(r)
  \/ \E r \in Reqs : MulterStore(r)
  \/ \E r \in Reqs : MulterLimit(r)
  \/ \E r \in Reqs : MulterStored(r)
  \/ \E r \in Reqs : UploadTrainingFiles(r)
  \/ \E r \in Reqs : ReadFileReturns(r)
  \/ \E r \in Reqs : ReadFileFails(r)
  \/ \E r \in Reqs : PdfReturns(r)
  \/ \E r \in Reqs : PdfFails(r)
  \/ \E r \in Reqs : UnlinkReturns(r)
  \/ \E r \in Reqs : UnlinkFails(r)
  \/ \E r \in Reqs : UploadRespond(r)
  \/ \E r \in Reqs : UploadThrows(r)
  \/ \E r \in Reqs : ErrorMiddleware(r)

Spec == Init /\ [][Next]_vars

\* The event loop runs every callback that is ready, and each collaborator call
\* eventually returns or fails: a request that has arrived keeps taking its steps.
RequestStep(r) ==
  \/ GenerateDocument(r) \/ Chat(r)
  \/ GenerateContentReturns(r) \/ GenerateContentFails(r)
  \/ MulterDone(r) \/ MulterReject(r) \/ MulterMkdirFails(r) \/ MulterStore(r)
  \/ MulterLimit(r) \/ MulterStored(r)
  \/ UploadTrainingFiles(r)
  \/ ReadFileReturns(r) \/ ReadFileFails(r)
  \/ PdfReturns(r) \/ PdfFails(r)
  \/ UnlinkReturns(r) \/ UnlinkFails(r)
  \/ UploadRespond(r) \/ UploadThrows(r)
  \/ ErrorMiddleware(r)

FairSpec == Init /\ [][Next]_vars /\ \A r \in Reqs : WF_vars(RequestStep(r))

(***************************************************************************)
(* Properties                                                              *)
(***************************************************************************)
IsEmptyField(v) == v = Undefined \/ v = ""
AllowedMimes == {PdfMime, DocMime, DocxMime}
PipelineErrors == {FilterError, LimitError, MkdirError, JsonError}

\* C1: once the response of an upload request has been sent, none of the temp files
\* stored for that request exists on disk, on every path through the handler (the
\* extraction succeeded, fs.readFile failed, pdf failed, or the file was a Word
\* file); a run in which fs.unlink itself failed is left aside.
C1_TempFilesGone ==
  \A r \in Reqs :
    (pc[r] = "done" /\ \A i \in 1..Len(fileErrors[r]) : fileErrors[r][i] # "unlink")
      => \A p \in DOMAIN disk : disk[p][1] # r

\* C2: a /generate-document request whose documentType or details is missing or
\* empty, and a /chat request whose message is missing or empty, never calls
\* generateContent and is answered with status 400 and an error body.
C2_MissingFieldIs400 ==
  \A r \in Reqs :
    ( \/ /\ route[r] = "/generate-document"
         /\ body[r] # NoBody
         /\ (IsEmptyField(body[r].documentType) \/ IsEmptyField(body[r].details))
      \/ /\ route[r] = "/chat"
         /\ body[r] # NoBody
         /\ IsEmptyField(body[r].message) )
    => /\ calls[r].generateContent = 0
       /\ pc[r] \in {"handler", "done"}
       /\ pc[r] = "done" =>
            /\ Len(responses[r]) = 1
            /\ responses[r][1].status = 400
            /\ "error" \in DOMAIN responses[r][1].body

C2_Witness ==
  \E r \in Reqs :
    /\ route[r] = "/generate-document"
    /\ body[r] # NoBody
    /\ ~IsEmptyField(body[r].documentType)
    /\ IsEmptyField(body[r].details)
    /\ pc[r] = "done"
    /\ responses[r][1].status = 400

\* C3: when the loop over a batch of n accepted files ends, processedFiles holds
\* exactly one entry per file, in upload order, whichever files failed in reading,
\* extraction or deletion; and the response of such a batch is the 200 success body.
C3_OneEntryPerFile ==
  \A r \in Reqs :
    /\ pc[r] = "respond" =>
         /\ Len(processedFiles[r]) = Len(files[r])
         /\ \A i \in 1..Len(files[r]) :
              processedFiles[r][i].filename = files[r][i].originalname
    /\ (pc[r] = "done" /\ route[r] = "/upload-training-files" /\ calls[r] # NoCalls
          /\ err[r] = Undefined) =>
         /\ responses[r][1].status = 200
         /\ responses[r][1].body.success

C5_NoDetailsInProduction ==
  nodeEnv = "production" =>
    \A r \in Reqs : \A i \in 1..Len(responses[r]) :
      responses[r][i].status = 500 => "details" \notin DOMAIN responses[r][i].body

\* C6: when generateContent returned a text, the single response is 200 and carries
\* exactly that text (document for /generate-document; response, with status
\* "success", for /chat), and generateContent was called exactly once.
C6_CompletionTextVerbatim ==
  \A r \in Reqs :
    completion[r] # Undefined =>
      /\ calls[r].generateContent = 1
      /\ Len(responses[r]) = 1
      /\ responses[r][1].status = 200
      /\ route[r] = "/generate-document" =>
           responses[r][1].body = [document |-> completion[r]]
      /\ route[r] = "/chat" =>
           responses[r][1].body = [response |-> completion[r], status |-> "success"]

C6_Witness ==
  \E r \in Reqs :
    /\ route[r] = "/chat"
    /\ completion[r] = ""
    /\ responses[r][1].body.response = ""

\* C7: when the upload handler is entered with no files, its step answers 400
\* {error: "No files uploaded"}, ends the request and starts no file operation.
NoFilesResponse == [status |-> 400, body |-> [error |-> "No files uploaded"]]

C7_NoFilesIs400 ==
  [][ \A r \in Reqs :
        ( /\ route[r] = "/upload-training-files"
          /\ pc[r] = "handler"
          /\ Len(files[r]) = 0
          /\ pc'[r] # pc[r] )
        => /\ responses'[r] = <<NoFilesResponse>>
           /\ calls'[r] = NoCalls
           /\ pc'[r] = "done" ]_vars

C7_Witness ==
  \E r \in Reqs :
    /\ route[r] = "/upload-training-files"
    /\ pc[r] = "done"
    /\ handlerRan[r]
    /\ responses[r] = <<NoFilesResponse>>

\* C8: two concurrent upload requests never hold the same path in uploads/.
C8_UniquePaths ==
  \A r1, r2 \in Reqs : r1 # r2 => UploadedPaths(r1) \cap UploadedPaths(r2) = {}

\* C9: an error passed to next() (a rejected upload, a failed mkdir, an unparsable
\* body) is answered by the error middleware with 500 "Internal server error", and
\* the route handler of that request never runs.
C9_UnhandledErrorsAre500 ==
  \A r \in Reqs :
    err[r] \in PipelineErrors =>
      /\ ~handlerRan[r]
      /\ calls[r] = NoCalls
      /\ pc[r] \in {"error", "done"}
      /\ pc[r] = "done" =>
           /\ Len(responses[r]) = 1
           /\ responses[r][1].status = 500
           /\ responses[r][1].body.error = "Internal server error"

C9_Witness ==
  \E r \in Reqs :
    /\ err[r] = LimitError
    /\ pc[r] = "done"
    /\ responses[r][1].status = 500

\* C10: a request never gets a second response, no collaborator call is started for
\* it after its response, and once it has arrived it eventually has its one response.
C10_ExactlyOneResponse ==
  /\ [](\A r \in Reqs :
          Len(responses[r]) <= 1 /\ (pc[r] = "done" <=> Len(responses[r]) = 1))
  /\ [][\A r \in Reqs : Len(responses[r]) > 0 => calls'[r] = calls[r]]_vars
  /\ \A r \in Reqs : (pc[r] # "idle") ~> (Len(responses[r]) = 1)

C10_Witness ==
  \E r \in Reqs :
    /\ pc[r] = "done"
    /\ Len(responses[r]) = 1
    /\ calls[r].readFile > 0
    /\ calls[r].unlink > 0
====
